---- MODULE Spec2Model ----
(***************************************************************************)
(* State-machine model of the FieldConditions simulation engine            *)
(* (src/src/lib/SimulationEngine.ts) and of the frame callback that drives *)
(* it (src/src/components/SimulationCanvas.tsx).                           *)
(*                                                                         *)
(* Number representation.  The engine computes in IEEE doubles and stores  *)
(* the field in a Float32Array; the model computes in fixed point:         *)
(*   - lengths, coordinates, velocities, speeds, particleSize,             *)
(*     perceptionRadius, sensorDistance : integers in units of 1/PS        *)
(*     (tenths);                                                           *)
(*   - field values, rates, probabilities, force weights, Math.random()    *)
(*     draws : integers in units of 1/FS (thousandths);                    *)
(*   - angles : integers in units of 2*pi/FullTurn (pi/8), with Cos/Sin    *)
(*     tabulated in thousandths and Atan2 returning the nearest direction. *)
(* Every division rounds to nearest (RDiv) unless the code floors.         *)
(***************************************************************************)
EXTENDS Integers, Sequences, FiniteSets, TLC

\* ------------------------------------------------------------------ bounds
MaxCount == 2
MaxPins == 1
MaxTicks == 2
MaxCmds == 2
MaxFood == 1

\* ------------------------------------------------- representation, constants
PS == 10
FS == 1000
FullTurn == 16
gridSize == 10

\* ------------------------------------------------------------------ arithmetic
Max(a, b) == IF a >= b THEN a ELSE b
Min(a, b) == IF a <= b THEN a ELSE b
Abs(a) == IF a >= 0 THEN a ELSE -a

\* a / b rounded to the nearest integer (b > 0)
RDiv(a, b) == (2 * a + b) \div (2 * b)

\* Math.ceil(a / b) for b > 0
CeilDiv(a, b) == -((-a) \div b)

\* JavaScript's remainder a % b: the sign of the dividend
JsMod(a, b) == IF a >= 0 THEN a % b ELSE -((-a) % b)

\* Math.floor(Math.sqrt(n)) by bisection
RECURSIVE SqrtSearch(_, _, _)
SqrtSearch(n, lo, hi) ==
    IF lo >= hi THEN lo
    ELSE LET mid == (lo + hi + 1) \div 2
         IN IF mid * mid <= n THEN SqrtSearch(n, mid, hi)
            ELSE SqrtSearch(n, lo, mid - 1)

Isqrt(n) == IF n <= 0 THEN 0 ELSE SqrtSearch(n, 0, Min(n, 46340))

\* Math.cos / Math.sin of an angle given in units of pi/8, in thousandths
CosTable == <<1000, 924, 707, 383, 0, -383, -707, -924,
              -1000, -924, -707, -383, 0, 383, 707, 924>>

Cos(a) == CosTable[(a % FullTurn) + 1]
Sin(a) == CosTable[((a - 4) % FullTurn) + 1]

\* Math.atan2(vy, vx): the direction in (-pi, pi] nearest to the vector's
Atan2(vy, vx) ==
    IF vx = 0 /\ vy = 0 THEN 0
    ELSE LET Dot(k) == Cos(k) * vx + Sin(k) * vy
             Dirs == (1 - FullTurn \div 2) .. (FullTurn \div 2)
             Best == {k \in Dirs : \A m \in Dirs : Dot(k) >= Dot(m)}
         IN CHOOSE k \in Best : \A m \in Best : Abs(k) <= Abs(m)

\* Math.exp(-t) in thousandths, t given in tenths
ExpTable == <<1000, 905, 819, 741, 670, 607, 549, 497, 449, 407,
              368, 333, 301, 273, 247, 223, 202, 183, 165, 150,
              135, 122, 111, 100, 91, 82, 74, 67, 61, 55,
              50, 45, 41, 37, 33, 30, 27, 25, 22, 20,
              18, 17, 15, 14, 12, 11, 10, 9, 8, 7,
              7, 6, 6, 5, 5, 4, 4, 3, 3, 3,
              2, 2, 2, 2, 2, 2, 1, 1, 1, 1>>

ExpNeg(t) == IF t < 0 THEN FS ELSE IF t >= Len(ExpTable) THEN 0 ELSE ExpTable[t + 1]

\* sum of F(k) for k in 1..n
SumTo(n, F(_)) ==
    LET s[k \in 0 .. n] == IF k = 0 THEN 0 ELSE s[k - 1] + F(k)
    IN s[n]

\* ------------------------------------------------------------------ state
VARIABLES
    width,          \* this.width
    height,         \* this.height
    params,         \* this.params
    particles,      \* this.particles
    chemicalField,  \* this.chemicalField, index py * width + px
    foodSources,    \* this.foodSources
    nTicks,         \* number of frames rendered so far (bounds the run)
    nCmds,          \* number of commands issued so far (bounds the run)
    op,             \* the last command and its arguments
    pre,            \* the engine state right before the last command
    nPins,          \* spawnStickyParticle calls since construction or the last restart
    appParams       \* the params state of App, handed to the canvas as a prop

vars == <<width, height, params, particles, chemicalField, foodSources, nTicks, nCmds, op, pre,
          nPins, appParams>>

Snapshot == [particles |-> particles, chemicalField |-> chemicalField,
             foodSources |-> foodSources, params |-> params]

ZeroField(w, h) == [idx \in 0 .. (w * h - 1) |-> 0]

\* ------------------------------------------------------------------ inputs
\* Math.random() results, in thousandths of [0, 1)
\* the five draws of one spawned particle: x, y, angle, vx angle, vy angle
SpawnDraws == {<<500, 500, 0, 0, 250>>,
               <<125, 500, 500, 500, 0>>}

\* the roll of the sticking check and the draw of the random-walk turn
Rolls == {0, 999}
WalkDraws == {0, 500}

Colors == {"#ffffff", "#000000"}
Speeds == {10, 20}
Probabilities == {0, 1000}

\* the parameter record the canvas is mounted with (App.tsx defaultParams,
\* scaled to the small field)
BaseParams ==
    [particleCount |-> 1, moveSpeed |-> 10, turnSpeed |-> 2, sensorAngle |-> 2,
     sensorDistance |-> 10, diffusionRate |-> 100, decayRate |-> 100,
     chemicalDepositRate |-> 36, alignmentForce |-> 300, cohesionForce |-> 0,
     separationForce |-> 500, perceptionRadius |-> 20, fieldColor |-> "#808080",
     moldColor |-> "#000000", particleSize |-> 10, backgroundColor |-> "#ffffff",
     isPaused |-> FALSE, stickingProbability |-> 500, releaseProbability |-> 0]

\* ------------------------------------------------------------------ particle store
\* one particle pushed by initializeParticles / updateParams from five draws
SpawnParticle(d, w, h, prm) ==
    [x |-> (d[1] * w * PS) \div FS,
     y |-> (d[2] * h * PS) \div FS,
     angle |-> (d[3] * FullTurn) \div FS,
     speed |-> prm.moveSpeed,
     vx |-> RDiv(Cos((d[4] * FullTurn) \div FS) * prm.moveSpeed, FS),
     vy |-> RDiv(Sin((d[5] * FullTurn) \div FS) * prm.moveSpeed, FS),
     isStuck |-> FALSE]

\* initializeParticles: the list is replaced by particleCount fresh particles
initializeParticles(ds, w, h, prm) ==
    [i \in 1 .. prm.particleCount |-> SpawnParticle(ds[i], w, h, prm)]

\* restartParticles that pushes the fresh particles onto the list it has
restartParticles_Append(ps, ds, w, h, prm) == ps \o initializeParticles(ds, w, h, prm)

\* restartParticles whose fresh particles are added to the stuck ones
restartParticles_KeepStuck(ps, ds, w, h, prm) ==
    SelectSeq(ps, LAMBDA p : p.isStuck) \o initializeParticles(ds, w, h, prm)

\* restartParticles(): the list ps is dropped for a fresh one
restartParticles(ps, ds, w, h, prm) == initializeParticles(ds, w, h, prm)

\* Array.prototype.splice(index, 1) with a 0-based index
SpliceOne(ps, index) ==
    [k \in 1 .. (Len(ps) - 1) |-> IF k <= index THEN ps[k] ELSE ps[k + 1]]

\* Array.prototype.splice(-n): drops the last n elements (all of them if n > length)
SpliceTail(ps, n) == SubSeq(ps, 1, Max(Len(ps) - n, 0))

\* the 0-based indices of the non-stuck particles, highest first
NonStuckIndices(ps) ==
    LET idx == {i \in 0 .. (Len(ps) - 1) : ~ps[i + 1].isStuck}
        rank(i) == Cardinality({j \in idx : j > i}) + 1
    IN [k \in 1 .. Cardinality(idx) |-> CHOOSE i \in idx : rank(i) = k]

\* the loop of lines 68-73: splice the non-stuck indices, highest first,
\* until particlesToRemove are gone
RECURSIVE RemoveNonStuck(_, _, _, _)
RemoveNonStuck(ps, indices, k, particlesToRemove) ==
    IF k > Len(indices) \/ k - 1 >= particlesToRemove THEN ps
    ELSE RemoveNonStuck(SpliceOne(ps, indices[k]), indices, k + 1, particlesToRemove)

\* RemoveExcess with the excess taken from the tail of the list, stuck or not
RemoveExcess_FromTail(ps, particlesToRemove) == SpliceTail(ps, particlesToRemove)

\* lines 57-79: the count went down
RemoveExcess(ps, particlesToRemove) ==
    LET indices == NonStuckIndices(ps)
        removed == Min(Len(indices), particlesToRemove)
        rest == RemoveNonStuck(ps, indices, 1, particlesToRemove)
    IN IF removed < particlesToRemove
       THEN SpliceTail(rest, particlesToRemove - removed)
       ELSE rest

\* AddParticles that fills the list up to newParticleCount entries, counting
\* from the length of the list instead of the old particleCount
AddParticles_ToListLength(ps, oldParticleCount, newParticleCount, ds, w, h, prm) ==
    ps \o [k \in 1 .. Max(newParticleCount - Len(ps), 0) |->
              SpawnParticle(ds[k], w, h, prm)]

\* lines 44-56: the count went up
AddParticles(ps, oldParticleCount, newParticleCount, ds, w, h, prm) ==
    ps \o [k \in 1 .. (newParticleCount - oldParticleCount) |->
              SpawnParticle(ds[k], w, h, prm)]

\* |v| in thousandths, for vx, vy in thousandths
Norm(vx, vy) == Isqrt(vx * vx + vy * vy)

\* RescaleSpeed without the isStuck test: every particle takes the new speed
RescaleSpeed_All(p, prm) ==
    LET currentSpeed == Norm(p.vx * 100, p.vy * 100)
    IN IF currentSpeed > 0
       THEN [p EXCEPT !.vx = RDiv(p.vx * prm.moveSpeed * 100, currentSpeed),
                      !.vy = RDiv(p.vy * prm.moveSpeed * 100, currentSpeed),
                      !.speed = prm.moveSpeed]
       ELSE [p EXCEPT !.speed = prm.moveSpeed]

\* lines 82-92: non-stuck particles are rescaled to the new moveSpeed
RescaleSpeed(p, prm) ==
    IF p.isStuck THEN p
    ELSE LET currentSpeed == Norm(p.vx * 100, p.vy * 100)
         IN IF currentSpeed > 0
            THEN [p EXCEPT !.vx = RDiv(p.vx * prm.moveSpeed * 100, currentSpeed),
                           !.vy = RDiv(p.vy * prm.moveSpeed * 100, currentSpeed),
                           !.speed = prm.moveSpeed]
            ELSE [p EXCEPT !.speed = prm.moveSpeed]

\* updateParams(newParams): ds are the draws of the particles it appends
updateParams(ps, oldPrm, newParams, ds, w, h) ==
    LET oldParticleCount == oldPrm.particleCount
        newParticleCount == newParams.particleCount
        resized ==
            IF newParticleCount > oldParticleCount
            THEN AddParticles(ps, oldParticleCount, newParticleCount, ds, w, h, newParams)
            ELSE IF newParticleCount < oldParticleCount
            THEN RemoveExcess(ps, oldParticleCount - newParticleCount)
            ELSE ps
    IN [k \in 1 .. Len(resized) |-> RescaleSpeed(resized[k], newParams)]

\* spawnStickyParticle(x, y)
spawnStickyParticle(ps, x, y) ==
    Append(ps, [x |-> x, y |-> y, angle |-> 0, speed |-> 0,
                vx |-> 0, vy |-> 0, isStuck |-> TRUE])

\* ------------------------------------------------------------------ spatial index
CellKey(p) == <<p.x \div (gridSize * PS), p.y \div (gridSize * PS)>>

\* updateGrid: cell key -> the particles (list indices) filed under it
updateGrid(ps) ==
    [key \in {CellKey(ps[j]) : j \in 1 .. Len(ps)} |->
        {j \in 1 .. Len(ps) : CellKey(ps[j]) = key}]

\* ------------------------------------------------------------------ field
\* lines 295-301: the point (sensorX, sensorY) of sensor i (-1 left, 0 centre,
\* 1 right)
SensorPoint(p, i, prm) ==
    LET sensorDistance == RDiv(prm.sensorDistance * prm.particleSize, PS)
        angle == p.angle + i * prm.sensorAngle
    IN <<p.x + RDiv(Cos(angle) * sensorDistance, FS),
         p.y + RDiv(Sin(angle) * sensorDistance, FS)>>

\* SensorReading with the sensor point wrapped around the field edges
SensorReading_Wrap(p, i, f, prm, w, h) ==
    LET sensorX == SensorPoint(p, i, prm)[1] % (w * PS)
        sensorY == SensorPoint(p, i, prm)[2] % (h * PS)
    IN f[(sensorY \div PS) * w + (sensorX \div PS)]

\* sense: the readings at angle - sensorAngle, angle, angle + sensorAngle
SensorReading(p, i, f, prm, w, h) ==
    LET sensorX == SensorPoint(p, i, prm)[1]
        sensorY == SensorPoint(p, i, prm)[2]
    IN IF sensorX >= 0 /\ sensorX < w * PS /\ sensorY >= 0 /\ sensorY < h * PS
       THEN LET idx == (sensorY \div PS) * w + (sensorX \div PS)
            IN IF idx >= 0 /\ idx < w * h THEN f[idx] ELSE 0
       ELSE 0

sense(p, f, prm, w, h) ==
    <<SensorReading(p, -1, f, prm, w, h),
      SensorReading(p, 0, f, prm, w, h),
      SensorReading(p, 1, f, prm, w, h)>>

\* the offsets (dx, dy) of a (2r+1) x (2r+1) window in loop order: dy outer, dx inner
Offsets(r) ==
    [k \in 1 .. ((2 * r + 1) * (2 * r + 1)) |->
        <<((k - 1) % (2 * r + 1)) - r, ((k - 1) \div (2 * r + 1)) - r>>]

\* DepositCell without the disk test of line 279: the whole square is written
DepositCell_NoMask(f, w, h, x, y, d, radius, depositValue) ==
    LET px == (x + d[1] * PS) \div PS
        py == (y + d[2] * PS) \div PS
    IN IF px >= 0 /\ px < w /\ py >= 0 /\ py < h
       THEN [f EXCEPT ![py * w + px] = Min(FS, f[py * w + px] + depositValue)]
       ELSE f

\* DepositCell that stores the deposit in the cell instead of adding it
DepositCell_Store(f, w, h, x, y, d, radius, depositValue) ==
    IF d[1] * d[1] + d[2] * d[2] <= radius * radius
    THEN LET px == (x + d[1] * PS) \div PS
             py == (y + d[2] * PS) \div PS
         IN IF px >= 0 /\ px < w /\ py >= 0 /\ py < h
            THEN [f EXCEPT ![py * w + px] = Min(FS, depositValue)]
            ELSE f
    ELSE f

\* lines 279-287: one offset of the deposit loop
DepositCell(f, w, h, x, y, d, radius, depositValue) ==
    IF d[1] * d[1] + d[2] * d[2] <= radius * radius
    THEN LET px == (x + d[1] * PS) \div PS
             py == (y + d[2] * PS) \div PS
         IN IF px >= 0 /\ px < w /\ py >= 0 /\ py < h
            THEN LET idx == py * w + px
                 IN IF idx >= 0 /\ idx < w * h
                    THEN [f EXCEPT ![idx] = Min(FS, f[idx] + depositValue)]
                    ELSE f
            ELSE f
    ELSE f

\* deposit into the particle's own cell only
deposit_CentreOnly(f, w, h, x, y, prm) ==
    LET idx == (y \div PS) * w + (x \div PS)
    IN [f EXCEPT ![idx] = Min(FS, f[idx] + prm.chemicalDepositRate)]

\* lines 273-290: the deposit of a particle at (x, y)
deposit(f, w, h, x, y, prm) ==
    LET radius == Max(1, prm.particleSize \div PS)
        depositValue == RDiv(prm.chemicalDepositRate, radius * radius)
        offs == Offsets(radius)
        g[k \in 0 .. Len(offs)] ==
            IF k = 0 THEN f
            ELSE DepositCell(g[k - 1], w, h, x, y, offs[k], radius, depositValue)
    IN g[Len(offs)]

\* InjectCell that adds the strength to the cell instead of setting it
InjectCell_Add(f, w, h, food, d, prm) ==
    IF (d[1] * d[1] + d[2] * d[2]) * PS * PS * PS * PS
          <= food.radius * food.radius * prm.particleSize * prm.particleSize
    THEN LET px == (food.x + d[1] * PS) \div PS
             py == (food.y + d[2] * PS) \div PS
         IN IF px >= 0 /\ px < w /\ py >= 0 /\ py < h
            THEN [f EXCEPT ![py * w + px] = f[py * w + px] + food.strength]
            ELSE f
    ELSE f

\* InjectCell without the distance test of line 334: the whole square is set
InjectCell_NoMask(f, w, h, food, d, prm) ==
    LET px == (food.x + d[1] * PS) \div PS
        py == (food.y + d[2] * PS) \div PS
    IN IF px >= 0 /\ px < w /\ py >= 0 /\ py < h
       THEN [f EXCEPT ![py * w + px] = food.strength]
       ELSE f

\* lines 331-345: one offset of one food source
InjectCell(f, w, h, food, d, prm) ==
    IF (d[1] * d[1] + d[2] * d[2]) * PS * PS * PS * PS
          <= food.radius * food.radius * prm.particleSize * prm.particleSize
    THEN LET px == (food.x + d[1] * PS) \div PS
             py == (food.y + d[2] * PS) \div PS
         IN IF px >= 0 /\ px < w /\ py >= 0 /\ py < h
            THEN LET idx == py * w + px
                 IN IF idx >= 0 /\ idx < w * h
                    THEN [f EXCEPT ![idx] = food.strength]
                    ELSE f
            ELSE f
    ELSE f

\* lines 328-346: one food source stamped into the field
InjectFood(f, w, h, food, prm) ==
    LET effectiveRadius == Max(1, (food.radius * prm.particleSize) \div (PS * PS))
        offs == Offsets(effectiveRadius)
        g[k \in 0 .. Len(offs)] ==
            IF k = 0 THEN f ELSE InjectCell(g[k - 1], w, h, food, offs[k], prm)
    IN g[Len(offs)]

\* lines 327-346: every food source, in insertion order
ApplyFoodSources(f, w, h, foods, prm) ==
    LET g[k \in 0 .. Len(foods)] ==
            IF k = 0 THEN f ELSE InjectFood(g[k - 1], w, h, foods[k], prm)
    IN g[Len(foods)]

\* DiskOffsets without the test of line 358: the whole square window
DiskOffsets_Square(r) == Offsets(r)

\* the offsets of Offsets(r) inside the disk dx*dx + dy*dy <= r*r, in loop order
DiskOffsets(r) ==
    SelectSeq(Offsets(r), LAMBDA d : d[1] * d[1] + d[2] * d[2] <= r * r)

\* BlurCell that blends in the neighbourhood sum instead of its mean
BlurCell_NoMean(f, w, h, x, y, disk, prm) ==
    LET nidx(k) == JsMod(y + disk[k][2] + h, h) * w + JsMod(x + disk[k][1] + w, w)
        acc[k \in 0 .. Len(disk)] ==
            IF k = 0 THEN 0 ELSE acc[k - 1] + f[nidx(k)]
        blended == RDiv(acc[Len(disk)] * prm.diffusionRate
                          + f[y * w + x] * (FS - prm.diffusionRate), FS)
    IN RDiv(blended * (FS - prm.decayRate), FS)

\* lines 353-374: the new value of cell (x, y) from the injected field f;
\* disk holds the offsets that pass the test of line 358
BlurCell(f, w, h, x, y, disk, prm) ==
    LET nidx(k) == JsMod(y + disk[k][2] + h, h) * w + JsMod(x + disk[k][1] + w, w)
        acc[k \in 0 .. Len(disk)] ==
            IF k = 0 THEN <<0, 0>>
            ELSE LET prev == acc[k - 1]
                     n == nidx(k)
                 IN IF n >= 0 /\ n < w * h
                    THEN <<prev[1] + f[n], prev[2] + 1>>
                    ELSE prev
        sum == acc[Len(disk)][1]
        count == acc[Len(disk)][2]
        blended == RDiv(sum * prm.diffusionRate
                          + f[y * w + x] * (FS - prm.diffusionRate) * count,
                        count * FS)
    IN IF count > 0 THEN RDiv(blended * (FS - prm.decayRate), FS) ELSE 0

\* diffuseChemicals that blurs in place: a cell reads the cells already
\* blurred in the same pass
diffuseChemicals_InPlace(f, w, h, foods, prm) ==
    LET disk == DiskOffsets(Max(1, prm.particleSize \div PS))
        g[k \in 0 .. (w * h)] ==
            IF k = 0 THEN ApplyFoodSources(f, w, h, foods, prm)
            ELSE LET prev == g[k - 1]
                 IN [prev EXCEPT ![k - 1] =
                        BlurCell(prev, w, h, (k - 1) % w, (k - 1) \div w, disk, prm)]
    IN g[w * h]

\* diffuseChemicals: food injection into the current buffer, then blur and
\* decay into a fresh buffer that replaces it
diffuseChemicals(f, w, h, foods, prm) ==
    LET NewField(injected, disk) ==
            [idx \in 0 .. (w * h - 1) |->
                BlurCell(injected, w, h, idx % w, idx \div w, disk, prm)]
    IN CHOOSE newField \in
           {NewField(injected, disk) :
               injected \in {ApplyFoodSources(f, w, h, foods, prm)},
               disk \in {DiskOffsets(Max(1, prm.particleSize \div PS))}} : TRUE

\* ------------------------------------------------------------------ behaviour
\* |(dx, dy)| in thousandths, for dx, dy in tenths
Distance(dx, dy) == Isqrt((dx * dx + dy * dy) * 100 * 100)

\* Others with the window of floor(perceptionRadius / gridSize) cells
Others_FloorWindow(i, ps, grid, prm) ==
    LET key == CellKey(ps[i])
        radius == prm.perceptionRadius \div (gridSize * PS)
        window == {<<key[1] + dx, key[2] + dy>> : dx \in -radius .. radius,
                                                   dy \in -radius .. radius}
    IN (UNION {grid[k] : k \in window \cap DOMAIN grid}) \ {i}

\* lines 134-146: the particles filed under the cells of the square window
\* around particle i, particle i itself left out (line 148)
Others(i, ps, grid, prm) ==
    LET key == CellKey(ps[i])
        radius == CeilDiv(prm.perceptionRadius, gridSize * PS)
        window == {<<key[1] + dx, key[2] + dy>> : dx \in -radius .. radius,
                                                   dy \in -radius .. radius}
    IN (UNION {grid[k] : k \in window \cap DOMAIN grid}) \ {i}

\* hasNearbyStuck without the isStuck test on the other particle
hasNearbyStuck_AnyNeighbour(i, ps, grid, prm) ==
    \E j \in Others(i, ps, grid, prm) :
        Distance(ps[j].x - ps[i].x, ps[j].y - ps[i].y) < prm.particleSize * 3 * 100

\* lines 155-158: a stuck particle within 3 x particleSize
hasNearbyStuck(i, ps, grid, prm) ==
    \E j \in Others(i, ps, grid, prm) :
        /\ ps[j].isStuck
        /\ Distance(ps[j].x - ps[i].x, ps[j].y - ps[i].y) < prm.particleSize * 3 * 100

\* lines 160-175: the neighbours that enter the flocking sums
Flock(i, ps, grid, prm) ==
    {j \in Others(i, ps, grid, prm) :
        Distance(ps[j].x - ps[i].x, ps[j].y - ps[i].y) < prm.perceptionRadius * 100}

\* ChemicalVelocity that turns away from the greater side reading
ChemicalVelocity_TurnAway(p, f, prm, w, h, u) ==
    LET sensors == sense(p, f, prm, w, h)
        leftSensor == sensors[1]
        centerSensor == sensors[2]
        rightSensor == sensors[3]
        maxSignal == Max(leftSensor, Max(centerSensor, rightSensor))
        Heading(angle) == [vx |-> RDiv(Cos(angle) * p.speed * 100, FS),
                           vy |-> RDiv(Sin(angle) * p.speed * 100, FS)]
    IN IF maxSignal > 0
       THEN IF centerSensor > leftSensor /\ centerSensor > rightSensor
            THEN [vx |-> RDiv(p.vx * 100 * (2 * FS + centerSensor), 2 * FS),
                  vy |-> RDiv(p.vy * 100 * (2 * FS + centerSensor), 2 * FS)]
            ELSE IF leftSensor > rightSensor
            THEN Heading(p.angle + prm.turnSpeed)
            ELSE Heading(p.angle - prm.turnSpeed)
       ELSE Heading(p.angle + RDiv((u - FS \div 2) * prm.turnSpeed, FS))

\* lines 191-222: the chemical velocity (thousandths); u is the draw of the
\* random walk, read only when no sensor reads above 0
ChemicalVelocity(p, f, prm, w, h, u) ==
    LET sensors == sense(p, f, prm, w, h)
        leftSensor == sensors[1]
        centerSensor == sensors[2]
        rightSensor == sensors[3]
        maxSignal == Max(leftSensor, Max(centerSensor, rightSensor))
        Heading(angle) == [vx |-> RDiv(Cos(angle) * p.speed * 100, FS),
                           vy |-> RDiv(Sin(angle) * p.speed * 100, FS)]
    IN IF maxSignal > 0
       THEN IF centerSensor > leftSensor /\ centerSensor > rightSensor
            THEN [vx |-> RDiv(p.vx * 100 * (2 * FS + centerSensor), 2 * FS),
                  vy |-> RDiv(p.vy * 100 * (2 * FS + centerSensor), 2 * FS)]
            ELSE IF leftSensor > rightSensor
            THEN Heading(p.angle - prm.turnSpeed)
            ELSE Heading(p.angle + prm.turnSpeed)
       ELSE Heading(p.angle + RDiv((u - FS \div 2) * prm.turnSpeed, FS))

\* lines 228-242: the flocking sums blended into the chemical velocity
Blend(i, ps, flock, chem, prm) ==
    LET p == ps[i]
        members == [k \in 1 .. Cardinality(flock) |->
                       CHOOSE j \in flock : Cardinality({m \in flock : m < j}) = k - 1]
        flockCount == Len(members)
        dx(k) == ps[members[k]].x - p.x
        dy(k) == ps[members[k]].y - p.y
        dist(k) == Distance(dx(k), dy(k))
        force(k) == ExpNeg(RDiv(dist(k) * 2, prm.perceptionRadius * 5))
        sumAlignX == SumTo(flockCount, LAMBDA k : ps[members[k]].vx)
        sumAlignY == SumTo(flockCount, LAMBDA k : ps[members[k]].vy)
        sumCohX == SumTo(flockCount, LAMBDA k : ps[members[k]].x)
        sumCohY == SumTo(flockCount, LAMBDA k : ps[members[k]].y)
        sumSepX == SumTo(flockCount, LAMBDA k :
                      IF dist(k) > 0 THEN -RDiv(dx(k) * 100 * force(k), dist(k)) ELSE 0)
        sumSepY == SumTo(flockCount, LAMBDA k :
                      IF dist(k) > 0 THEN -RDiv(dy(k) * 100 * force(k), dist(k)) ELSE 0)
        alignmentX == RDiv(sumAlignX * prm.alignmentForce, PS * flockCount)
        alignmentY == RDiv(sumAlignY * prm.alignmentForce, PS * flockCount)
        cohesionX == RDiv((sumCohX - flockCount * p.x) * prm.cohesionForce,
                          flockCount * prm.perceptionRadius)
        cohesionY == RDiv((sumCohY - flockCount * p.y) * prm.cohesionForce,
                          flockCount * prm.perceptionRadius)
        separationX == RDiv(sumSepX * prm.separationForce, FS * flockCount)
        separationY == RDiv(sumSepY * prm.separationForce, FS * flockCount)
    IN IF flockCount > 0
       THEN [vx |-> RDiv(chem.vx * 6 + (alignmentX + cohesionX + separationX) * 4, 10),
             vy |-> RDiv(chem.vy * 6 + (alignmentY + cohesionY + separationY) * 4, 10)]
       ELSE chem

\* lines 244-251: the final velocity renormalised to moveSpeed (tenths)
Normalize(v, prm) ==
    LET speed == Norm(v.vx, v.vy)
    IN IF speed > 0
       THEN [vx |-> RDiv(v.vx * prm.moveSpeed, speed),
             vy |-> RDiv(v.vy * prm.moveSpeed, speed)]
       ELSE [vx |-> 0, vy |-> 0]

\* lines 186-251: what calculateForces returns once the sticking check is
\* passed; a particle that reaches line 187 is not stuck, so the release
\* roll of lines 187-189 is never taken.  The draw of the random walk is
\* made when no sensor reads above 0 (line 199)
FreeForces(i, ps, f, grid, prm, w, h) ==
    LET sensors == sense(ps[i], f, prm, w, h)
        needsWalk == Max(sensors[1], Max(sensors[2], sensors[3])) <= 0
    IN {[vx |-> v.vx, vy |-> v.vy, isStuck |-> FALSE] :
          v \in {Normalize(Blend(i, ps, Flock(i, ps, grid, prm),
                                 ChemicalVelocity(ps[i], f, prm, w, h, u), prm), prm) :
                    u \in IF needsWalk THEN WalkDraws ELSE {0}}}

\* calculateForces whose sticking branch returns the particle's velocity
\* instead of zero
calculateForces_KeepVelocity(i, ps, f, grid, prm, w, h) ==
    IF ps[i].isStuck THEN {[vx |-> 0, vy |-> 0, isStuck |-> TRUE]}
    ELSE IF hasNearbyStuck(i, ps, grid, prm)
    THEN UNION {IF roll < prm.stickingProbability
                THEN {[vx |-> ps[i].vx, vy |-> ps[i].vy, isStuck |-> TRUE]}
                ELSE FreeForces(i, ps, f, grid, prm, w, h) : roll \in Rolls}
    ELSE FreeForces(i, ps, f, grid, prm, w, h)

\* calculateForces that steers the particle before it looks at the sticking
\* roll: a particle that sticks keeps the steered velocity
calculateForces_SenseFirst(i, ps, f, grid, prm, w, h) ==
    IF ps[i].isStuck THEN {[vx |-> 0, vy |-> 0, isStuck |-> TRUE]}
    ELSE IF hasNearbyStuck(i, ps, grid, prm)
    THEN UNION {IF roll < prm.stickingProbability
                THEN {[v EXCEPT !.isStuck = TRUE] :
                         v \in FreeForces(i, ps, f, grid, prm, w, h)}
                ELSE FreeForces(i, ps, f, grid, prm, w, h) : roll \in Rolls}
    ELSE FreeForces(i, ps, f, grid, prm, w, h)

\* calculateForces(particle): the possible results {vx, vy} together with the
\* isStuck flag it leaves on the particle, over the Math.random() draws
calculateForces(i, ps, f, grid, prm, w, h) ==
    IF ps[i].isStuck THEN {[vx |-> 0, vy |-> 0, isStuck |-> TRUE]}
    ELSE IF hasNearbyStuck(i, ps, grid, prm)
    THEN UNION {IF roll < prm.stickingProbability
                THEN {[vx |-> 0, vy |-> 0, isStuck |-> TRUE]}
                ELSE FreeForces(i, ps, f, grid, prm, w, h) : roll \in Rolls}
    ELSE FreeForces(i, ps, f, grid, prm, w, h)

\* MoveAndDeposit without the wrap of lines 270-271
MoveAndDeposit_NoWrap(i, ps, f, prm, w, h, r) ==
    LET p == ps[i]
        x == p.x + r.vx
        y == p.y + r.vy
        moved == [p EXCEPT !.vx = r.vx, !.vy = r.vy, !.angle = Atan2(r.vy, r.vx),
                           !.speed = prm.moveSpeed, !.x = x, !.y = y,
                           !.isStuck = r.isStuck]
    IN [ps |-> [ps EXCEPT ![i] = moved], f |-> deposit(f, w, h, x, y, prm)]

\* MoveAndDeposit that deposits around the position the particle leaves
MoveAndDeposit_DepositAtStart(i, ps, f, prm, w, h, r) ==
    LET p == ps[i]
        x == JsMod(p.x + r.vx + w * PS, w * PS)
        y == JsMod(p.y + r.vy + h * PS, h * PS)
        moved == [p EXCEPT !.vx = r.vx, !.vy = r.vy, !.angle = Atan2(r.vy, r.vx),
                           !.speed = prm.moveSpeed, !.x = x, !.y = y,
                           !.isStuck = r.isStuck]
    IN [ps |-> [ps EXCEPT ![i] = moved], f |-> deposit(f, w, h, p.x, p.y, prm)]

\* lines 258-290: velocity, heading, move, wrap and deposit of particle i
MoveAndDeposit(i, ps, f, prm, w, h, r) ==
    LET p == ps[i]
        x == JsMod(p.x + r.vx + w * PS, w * PS)
        y == JsMod(p.y + r.vy + h * PS, h * PS)
        moved == [p EXCEPT !.vx = r.vx, !.vy = r.vy, !.angle = Atan2(r.vy, r.vx),
                           !.speed = prm.moveSpeed, !.x = x, !.y = y,
                           !.isStuck = r.isStuck]
    IN [ps |-> [ps EXCEPT ![i] = moved], f |-> deposit(f, w, h, x, y, prm)]

\* updateParticle that returns as soon as the particle sticks, before the
\* deposit
updateParticle_StopWhenStuck(i, ps, f, grid, prm, w, h) ==
    IF ps[i].isStuck THEN {[ps |-> ps, f |-> f]}
    ELSE {IF r.isStuck
          THEN [ps |-> MoveAndDeposit(i, ps, f, prm, w, h, r).ps, f |-> f]
          ELSE MoveAndDeposit(i, ps, f, prm, w, h, r) :
             r \in calculateForces(i, ps, f, grid, prm, w, h)}

\* updateParticle without the isStuck tests: every particle is steered and moved
updateParticle_IgnoreStuck(i, ps, f, grid, prm, w, h) ==
    {MoveAndDeposit(i, ps, f, prm, w, h, r) :
        r \in FreeForces(i, ps, f, grid, prm, w, h)}

\* updateParticle(particle): the possible (particles, field) after it
updateParticle(i, ps, f, grid, prm, w, h) ==
    IF ps[i].isStuck THEN {[ps |-> ps, f |-> f]}
    ELSE {MoveAndDeposit(i, ps, f, prm, w, h, r) :
             r \in calculateForces(i, ps, f, grid, prm, w, h)}

\* line 320: this.particles.forEach(updateParticle), in list order
RECURSIVE UpdateParticles(_, _, _, _, _, _, _)
UpdateParticles(i, ps, f, grid, prm, w, h) ==
    IF i > Len(ps) THEN {[ps |-> ps, f |-> f]}
    ELSE UNION {UpdateParticles(i + 1, s.ps, s.f, grid, prm, w, h) :
                   s \in updateParticle(i, ps, f, grid, prm, w, h)}

\* update(): the possible (particles, field) after one engine step
update(ps, f, foods, prm, w, h) ==
    {[ps |-> s.ps, f |-> diffuseChemicals(s.f, w, h, foods, prm)] :
        s \in UpdateParticles(1, ps, f, updateGrid(ps), prm, w, h)}

\* render without the pause test
render_NoPauseCheck(ps, f, foods, prm, w, h) == update(ps, f, foods, prm, w, h)

\* render(): the frame callback steps the engine unless the pause flag is set
render(ps, f, foods, prm, w, h) ==
    IF ~prm.isPaused THEN update(ps, f, foods, prm, w, h)
    ELSE {[ps |-> ps, f |-> f]}

\* ------------------------------------------------------------------ food sources
addFoodSource(foods, x, y, radius, strength) ==
    Append(foods, [x |-> x, y |-> y, radius |-> radius, strength |-> strength])

removeFoodSourcesNear(foods, x, y, radius) ==
    LET Keep(food) ==
            (food.x - x) * (food.x - x) + (food.y - y) * (food.y - y) > radius * radius
        kept == {k \in 1 .. Len(foods) : Keep(foods[k])}
    IN [n \in 1 .. Cardinality(kept) |->
           foods[CHOOSE k \in kept : Cardinality({m \in kept : m < k}) = n - 1]]

\* clearFoodSources that empties the list and leaves the field alone
clearFoodSources_KeepField(f, w, h) == [foodSources |-> <<>>, chemicalField |-> f]

\* clearFoodSources(): an empty list and a fresh, zeroed buffer in place of f
clearFoodSources(f, w, h) == [foodSources |-> <<>>, chemicalField |-> ZeroField(w, h)]

\* ------------------------------------------------------------------ actions
\* the parameter records the controls can hand over: the current record
\* with one field edited (Controls.handleChange)
ParamEdits(prm) ==
    {[prm EXCEPT !.particleCount = c] : c \in 0 .. MaxCount}
    \cup {[prm EXCEPT !.moveSpeed = s] : s \in Speeds}
    \cup {[prm EXCEPT !.isPaused = b] : b \in BOOLEAN}
    \cup {[prm EXCEPT !.backgroundColor = c] : c \in Colors}
    \cup {[prm EXCEPT !.releaseProbability = q] : q \in Probabilities}

\* where the pin tool and the attract / erase tools click
PinPoints == {<<35, 20>>}
FoodPoints == {<<10, 10>>}
FoodRadii == {10}
FoodStrengths == {700}

Tick ==
    /\ nTicks < MaxTicks
    /\ \E s \in render(particles, chemicalField, foodSources, params, width, height) :
          /\ particles' = s.ps
          /\ chemicalField' = s.f
    /\ nTicks' = nTicks + 1
    /\ op' = [name |-> "tick"]
    /\ pre' = Snapshot
    /\ UNCHANGED <<width, height, params, foodSources, nCmds, nPins, appParams>>

UpdateParameters ==
    /\ nCmds < MaxCmds
    /\ nCmds' = nCmds + 1
    /\ \E newParams \in ParamEdits(params) :
       \E ds \in [1 .. Max(newParams.particleCount - params.particleCount, 0) -> SpawnDraws] :
          /\ particles' = updateParams(particles, params, newParams, ds, width, height)
          /\ params' = newParams
          /\ appParams' = newParams
    /\ op' = [name |-> "updateParameters"]
    /\ pre' = Snapshot
    /\ UNCHANGED <<width, height, chemicalField, foodSources, nTicks, nPins>>

Restart ==
    /\ nCmds < MaxCmds
    /\ nCmds' = nCmds + 1
    /\ \E ds \in [1 .. params.particleCount -> SpawnDraws] :
          particles' = restartParticles(particles, ds, width, height, params)
    /\ nPins' = 0
    /\ op' = [name |-> "restart"]
    /\ pre' = Snapshot
    /\ UNCHANGED <<width, height, params, chemicalField, foodSources, nTicks, appParams>>

SpawnPinned ==
    /\ nCmds < MaxCmds
    /\ nCmds' = nCmds + 1
    /\ Len(particles) < params.particleCount + MaxPins
    /\ \E pt \in PinPoints :
          particles' = spawnStickyParticle(particles, pt[1], pt[2])
    /\ nPins' = nPins + 1
    /\ op' = [name |-> "spawnPinned"]
    /\ pre' = Snapshot
    /\ UNCHANGED <<width, height, params, chemicalField, foodSources, nTicks, appParams>>

AddFoodSource ==
    /\ nCmds < MaxCmds
    /\ nCmds' = nCmds + 1
    /\ Len(foodSources) < MaxFood
    /\ \E pt \in FoodPoints, radius \in FoodRadii, strength \in FoodStrengths :
          foodSources' = addFoodSource(foodSources, pt[1], pt[2], radius, strength)
    /\ op' = [name |-> "addFoodSource"]
    /\ pre' = Snapshot
    /\ UNCHANGED <<width, height, params, particles, chemicalField, nTicks, nPins, appParams>>

RemoveFoodSourcesNear ==
    /\ nCmds < MaxCmds
    /\ nCmds' = nCmds + 1
    /\ \E pt \in FoodPoints, radius \in FoodRadii :
          foodSources' = removeFoodSourcesNear(foodSources, pt[1], pt[2], radius)
    /\ op' = [name |-> "removeFoodSourcesNear"]
    /\ pre' = Snapshot
    /\ UNCHANGED <<width, height, params, particles, chemicalField, nTicks, nPins, appParams>>

ClearFoodSources ==
    /\ nCmds < MaxCmds
    /\ nCmds' = nCmds + 1
    /\ LET cleared == clearFoodSources(chemicalField, width, height)
       IN /\ foodSources' = cleared.foodSources
          /\ chemicalField' = cleared.chemicalField
    /\ op' = [name |-> "clearFoodSources"]
    /\ pre' = Snapshot
    /\ UNCHANGED <<width, height, params, particles, nTicks, nPins, appParams>>

\* new SimulationEngine(width, height, params)
Init ==
    /\ width = 4
    /\ height = 4
    /\ params \in {[BaseParams EXCEPT !.particleCount = c] : c \in 1 .. MaxCount}
    /\ \E ds \in [1 .. params.particleCount -> SpawnDraws] :
          particles = initializeParticles(ds, 4, 4, params)
    /\ chemicalField = ZeroField(4, 4)
    /\ foodSources = <<>>
    /\ nTicks = 0
    /\ nCmds = 0
    /\ nPins = 0
    /\ appParams = params
    /\ op = [name |-> "new"]
    /\ pre = [particles |-> <<>>, chemicalField |-> ZeroField(4, 4),
              foodSources |-> <<>>, params |-> params]

Next ==
    \/ Tick
    \/ UpdateParameters
    \/ Restart
    \/ SpawnPinned
    \/ AddFoodSource
    \/ RemoveFoodSourcesNear
    \/ ClearFoodSources

Spec == Init /\ [][Next]_vars

\* ------------------------------------------------------------------ deposit alone
\* the deposit of one particle applied to given fields: the inputs of the
\* function are drawn in DepositInit and DepositStep applies it once
DepositDims == {<<4, 4>>, <<6, 6>>}
DepositSizes == {10, 15, 20}
DepositRates == {36, 100}
DepositLevels == {0, 200, 990}

DepositInit ==
    /\ \E dim \in DepositDims : width = dim[1] /\ height = dim[2]
    /\ params \in {[BaseParams EXCEPT !.particleSize = s, !.chemicalDepositRate = r] :
                      s \in DepositSizes, r \in DepositRates}
    /\ \E cx \in 0 .. (width - 1), cy \in 0 .. (height - 1), o \in {0, 5} :
          particles = <<[x |-> cx * PS + o, y |-> cy * PS + o, angle |-> 0,
                         speed |-> params.moveSpeed, vx |-> 0, vy |-> 0,
                         isStuck |-> FALSE]>>
    /\ \E level \in DepositLevels :
          chemicalField = [idx \in 0 .. (width * height - 1) |-> level]
    /\ foodSources = <<>>
    /\ nTicks = 0
    /\ nCmds = 0
    /\ nPins = 0
    /\ appParams = params
    /\ op = [name |-> "new"]
    /\ pre = [particles |-> <<>>, chemicalField |-> ZeroField(width, height),
              foodSources |-> <<>>, params |-> params]

DepositStep ==
    /\ op.name = "new"
    /\ chemicalField' = deposit(chemicalField, width, height,
                                particles[1].x, particles[1].y, params)
    /\ op' = [name |-> "deposit"]
    /\ pre' = Snapshot
    /\ UNCHANGED <<width, height, params, particles, foodSources, nTicks, nCmds, nPins, appParams>>

DepositNext == DepositStep

SpecDeposit == DepositInit /\ [][DepositNext]_vars

\* ------------------------------------------------------------------ field and food alone
\* an engine constructed with particleCount = 0 on the 4 x 4 field, driven by
\* the attract and erase tools, the clear button and the frame callback
MaxFoodCmds == 3
MaxSources == 2

FoodDiffusionRates == {0, 100, 500}
FoodDecayRates == {0, 100}
ToolPoints == {<<10, 10>>, <<20, 10>>, <<35, 25>>}
ToolSizes == {10}
ToolStrengths == {700, 300}

FoodInit ==
    /\ width = 4
    /\ height = 4
    /\ params \in {[BaseParams EXCEPT !.particleCount = 0, !.diffusionRate = dr,
                                      !.decayRate = dc] :
                      dr \in FoodDiffusionRates, dc \in FoodDecayRates}
    /\ particles = initializeParticles(<<>>, 4, 4, params)
    /\ chemicalField = ZeroField(4, 4)
    /\ foodSources = <<>>
    /\ nTicks = 0
    /\ nCmds = 0
    /\ nPins = 0
    /\ appParams = params
    /\ op = [name |-> "new"]
    /\ pre = [particles |-> <<>>, chemicalField |-> ZeroField(4, 4),
              foodSources |-> <<>>, params |-> params]

\* handleInteraction with the attract tool
Attract ==
    /\ nCmds < MaxFoodCmds
    /\ nCmds' = nCmds + 1
    /\ Len(foodSources) < MaxSources
    /\ \E pt \in ToolPoints, size \in ToolSizes, strength \in ToolStrengths :
          foodSources' = addFoodSource(foodSources, pt[1], pt[2], size, strength)
    /\ op' = [name |-> "addFoodSource"]
    /\ pre' = Snapshot
    /\ UNCHANGED <<width, height, params, particles, chemicalField, nTicks, nPins, appParams>>

\* handleInteraction with the erase tool
Erase ==
    /\ nCmds < MaxFoodCmds
    /\ nCmds' = nCmds + 1
    /\ \E pt \in ToolPoints, size \in ToolSizes :
          /\ foodSources' = removeFoodSourcesNear(foodSources, pt[1], pt[2], size)
          /\ op' = [name |-> "removeFoodSourcesNear", x |-> pt[1], y |-> pt[2],
                    radius |-> size]
    /\ pre' = Snapshot
    /\ UNCHANGED <<width, height, params, particles, chemicalField, nTicks, nPins, appParams>>

FoodNext ==
    \/ Tick
    \/ Attract
    \/ Erase
    \/ ClearFoodSources

SpecFood == FoodInit /\ [][FoodNext]_vars

\* ------------------------------------------------------------------ sticking on a wide field
\* an engine on a 12 x 2 field, wider than one cell of the spatial index
\* (gridSize 10), with the pin tool and the frame callback
StickWidth == 12
StickHeight == 2

\* spawn draws that put a particle at (9.5, 1.0) and one at (6.0, 1.0)
StickDraws == {<<792, 500, 0, 0, 250>>,
               <<500, 500, 500, 500, 0>>}

\* the pin tool clicks at (10.5, 1.0), in the index cell right of x = 10
StickPins == {<<105, 10>>}

StickPerceptionRadii == {0, 20}
StickProbabilities == {500, 1000}

StickInit ==
    /\ width = StickWidth
    /\ height = StickHeight
    /\ params \in {[BaseParams EXCEPT !.particleCount = c, !.perceptionRadius = pr,
                                      !.stickingProbability = q] :
                      c \in 1 .. MaxCount, pr \in StickPerceptionRadii,
                      q \in StickProbabilities}
    /\ \E ds \in [1 .. params.particleCount -> StickDraws] :
          particles = initializeParticles(ds, StickWidth, StickHeight, params)
    /\ chemicalField = ZeroField(StickWidth, StickHeight)
    /\ foodSources = <<>>
    /\ nTicks = 0
    /\ nCmds = 0
    /\ nPins = 0
    /\ appParams = params
    /\ op = [name |-> "new"]
    /\ pre = [particles |-> <<>>, chemicalField |-> ZeroField(StickWidth, StickHeight),
              foodSources |-> <<>>, params |-> params]

\* handleSpawnStickyParticle at a click of the pin tool
Pin ==
    /\ nCmds < MaxCmds
    /\ nCmds' = nCmds + 1
    /\ Len(particles) < params.particleCount + MaxPins
    /\ \E pt \in StickPins :
          particles' = spawnStickyParticle(particles, pt[1], pt[2])
    /\ nPins' = nPins + 1
    /\ op' = [name |-> "spawnPinned"]
    /\ pre' = Snapshot
    /\ UNCHANGED <<width, height, params, chemicalField, foodSources, nTicks, appParams>>

StickNext ==
    \/ Tick
    \/ Pin

SpecStick == StickInit /\ [][StickNext]_vars

\* ------------------------------------------------------------------ the phases of update()
\* update() taken one call at a time on a 22 x 2 field (three cells of the
\* spatial index): updateGrid, then updateParticle for each particle in list
\* order, then diffuseChemicals.  op holds the position inside update():
\*   "updateGrid"      the index is built from the list as it is in pre
\*   "updateParticle"  particle op.index was just updated; op.before is the
\*                     list and the field right before that call
\*   "tick"            diffuseChemicals has run and update() returned
\* No command runs while update() is running.
PhaseWidth == 22
PhaseHeight == 2

\* spawn draws: a particle at (20.0, 1.0) heading in -x, one at (9.9, 1.0),
\* and two at x = 12.5 heading in +y, in the lower and in the upper row
PhaseDraws == {<<910, 500, 500, 500, 0>>,
               <<450, 500, 0, 0, 250>>,
               <<569, 600, 250, 250, 250>>,
               <<569, 250, 250, 250, 250>>}

PhasePins == {<<105, 10>>}
PhaseFoodPoints == {<<120, 10>>}
PhaseFoodSizes == {10}
PhaseFoodStrengths == {2000, -700}

PhaseMoveSpeed == 20
PhasePerceptionRadius == 90

InUpdate == op.name \in {"updateGrid", "updateParticle"}

\* the particle the forEach of line 320 takes next
NextIndex == IF op.name = "updateParticle" THEN op.index + 1 ELSE 1

PhaseInit ==
    /\ width = PhaseWidth
    /\ height = PhaseHeight
    /\ params \in {[BaseParams EXCEPT !.particleCount = c,
                                      !.moveSpeed = PhaseMoveSpeed,
                                      !.perceptionRadius = PhasePerceptionRadius,
                                      !.stickingProbability = FS] :
                      c \in 1 .. MaxCount}
    /\ \E ds \in [1 .. params.particleCount -> PhaseDraws] :
          particles = initializeParticles(ds, PhaseWidth, PhaseHeight, params)
    /\ chemicalField = ZeroField(PhaseWidth, PhaseHeight)
    /\ foodSources = <<>>
    /\ nTicks = 0
    /\ nCmds = 0
    /\ nPins = 0
    /\ appParams = params
    /\ op = [name |-> "new"]
    /\ pre = [particles |-> <<>>, chemicalField |-> ZeroField(PhaseWidth, PhaseHeight),
              foodSources |-> <<>>, params |-> params]

\* render() enters update(), which rebuilds the index (lines 105-106, 319)
BeginUpdate ==
    /\ ~InUpdate
    /\ nTicks < MaxTicks
    /\ ~params.isPaused
    /\ op' = [name |-> "updateGrid"]
    /\ pre' = Snapshot
    /\ UNCHANGED <<width, height, params, particles, chemicalField, foodSources,
                   nTicks, nCmds, nPins, appParams>>

\* one call of updateParticle by the forEach of line 320
UpdateNextParticle ==
    /\ InUpdate
    /\ NextIndex <= Len(particles)
    /\ \E s \in updateParticle(NextIndex, particles, chemicalField,
                                updateGrid(pre.particles), params, width, height) :
          /\ particles' = s.ps
          /\ chemicalField' = s.f
    /\ op' = [name |-> "updateParticle", index |-> NextIndex,
              before |-> [particles |-> particles, chemicalField |-> chemicalField]]
    /\ UNCHANGED <<width, height, params, foodSources, nTicks, nCmds, pre, nPins,
                   appParams>>

\* line 321: the diffusion step that ends update()
DiffuseChemicals ==
    /\ InUpdate
    /\ NextIndex > Len(particles)
    /\ chemicalField' = diffuseChemicals(chemicalField, width, height, foodSources, params)
    /\ nTicks' = nTicks + 1
    /\ op' = [name |-> "tick"]
    /\ UNCHANGED <<width, height, params, particles, foodSources, nCmds, pre, nPins,
                   appParams>>

\* a click of the pin tool between two frames
PhasePin ==
    /\ ~InUpdate
    /\ nCmds < MaxCmds
    /\ nCmds' = nCmds + 1
    /\ Len(particles) < params.particleCount + MaxPins
    /\ \E pt \in PhasePins :
          particles' = spawnStickyParticle(particles, pt[1], pt[2])
    /\ nPins' = nPins + 1
    /\ op' = [name |-> "spawnPinned"]
    /\ pre' = Snapshot
    /\ UNCHANGED <<width, height, params, chemicalField, foodSources, nTicks, appParams>>

\* a click of the attract tool between two frames
PhaseAttract ==
    /\ ~InUpdate
    /\ nCmds < MaxCmds
    /\ nCmds' = nCmds + 1
    /\ Len(foodSources) < MaxFood
    /\ \E pt \in PhaseFoodPoints, size \in PhaseFoodSizes, strength \in PhaseFoodStrengths :
          foodSources' = addFoodSource(foodSources, pt[1], pt[2], size, strength)
    /\ op' = [name |-> "addFoodSource"]
    /\ pre' = Snapshot
    /\ UNCHANGED <<width, height, params, particles, chemicalField, nTicks, nPins,
                   appParams>>

PhaseNext ==
    \/ BeginUpdate
    \/ UpdateNextParticle
    \/ DiffuseChemicals
    \/ PhasePin
    \/ PhaseAttract

SpecPhase == PhaseInit /\ [][PhaseNext]_vars

\* ------------------------------------------------------------------ loading settings
\* App.handleLoadSettings: setParams(newParams) changes the record the canvas
\* is rendered with (appParams), then restartFn() restarts the engine, which
\* still holds the old record; the effect of SimulationCanvas lines 88-94
\* hands the new record to updateParams after the next render.  Frames may
\* run in between.  Pins and edits of the controls come before the load,
\* and a behaviour has one load.
LoadedParams ==
    {[params EXCEPT !.particleCount = c, !.moveSpeed = s] :
        c \in 0 .. MaxCount, s \in Speeds} \ {params}

PinBeforeLoad == appParams = params /\ SpawnPinned

EditBeforeLoad == appParams = params /\ UpdateParameters

LoadSettings ==
    /\ appParams = params
    /\ nCmds <= MaxCmds
    /\ nCmds' = MaxCmds + 1
    /\ \E newParams \in LoadedParams : appParams' = newParams
    /\ \E ds \in [1 .. params.particleCount -> SpawnDraws] :
          particles' = restartParticles(particles, ds, width, height, params)
    /\ nPins' = 0
    /\ op' = [name |-> "loadSettings"]
    /\ pre' = Snapshot
    /\ UNCHANGED <<width, height, params, chemicalField, foodSources, nTicks>>

ParamsEffect ==
    /\ appParams # params
    /\ \E ds \in [1 .. Max(appParams.particleCount - params.particleCount, 0) -> SpawnDraws] :
          particles' = updateParams(particles, params, appParams, ds, width, height)
    /\ params' = appParams
    /\ op' = [name |-> "paramsEffect"]
    /\ pre' = Snapshot
    /\ UNCHANGED <<width, height, chemicalField, foodSources, nTicks, nCmds, nPins,
                   appParams>>

LoadNext ==
    \/ Tick
    \/ PinBeforeLoad
    \/ EditBeforeLoad
    \/ LoadSettings
    \/ ParamsEffect

SpecLoad == Init /\ [][LoadNext]_vars

\* ------------------------------------------------------------------ claims
Indices(ps) == 1 .. Len(ps)

SamePlace(p, q) == p.x = q.x /\ p.y = q.y

\* two parameter records that differ in nothing but colours and pause flag
CosmeticOnly(a, b) ==
    [a EXCEPT !.fieldColor = b.fieldColor, !.moldColor = b.moldColor,
              !.backgroundColor = b.backgroundColor, !.isPaused = b.isPaused] = b

\* C1: in every reachable state every particle with isStuck = true has
\* vx = 0 and vy = 0.
Thm_C1 ==
    \A i \in Indices(particles) :
        particles[i].isStuck => particles[i].vx = 0 /\ particles[i].vy = 0

\* a particle that was moving became stuck in the last tick
Witness_C1 ==
    /\ op.name = "tick"
    /\ \E i \in Indices(particles) :
          /\ particles[i].isStuck
          /\ ~pre.particles[i].isStuck
          /\ pre.particles[i].vx # 0

\* C2: a particle that is stuck at the start of a tick, with
\* releaseProbability = 0, has the same x, y, vx, vy after the tick (hence
\* after any number of consecutive ticks), whatever else the tick changes.
Thm_C2 ==
    (op.name = "tick" /\ pre.params.releaseProbability = 0) =>
        \A i \in Indices(pre.particles) :
            pre.particles[i].isStuck =>
                /\ SamePlace(particles[i], pre.particles[i])
                /\ particles[i].vx = pre.particles[i].vx
                /\ particles[i].vy = pre.particles[i].vy

\* the second of two ticks, with a stuck particle at its start, in which
\* another particle moved and the field changed
Witness_C2 ==
    /\ op.name = "tick"
    /\ nTicks = 2
    /\ pre.params.releaseProbability = 0
    /\ \E i, j \in Indices(pre.particles) :
          /\ pre.particles[i].isStuck
          /\ ~SamePlace(particles[j], pre.particles[j])
    /\ chemicalField # pre.chemicalField

\* C3: every particle that is stuck at the start of a tick rolls a release
\* check in that tick; with releaseProbability = 1 every stuck particle is
\* non-stuck after one tick.
Cex_C3 ==
    (op.name = "tick" /\ ~pre.params.isPaused /\ pre.params.releaseProbability = FS) =>
        \A i \in Indices(pre.particles) :
            pre.particles[i].isStuck => ~particles[i].isStuck

\* C4: after updateParameters(p) the particle list holds exactly
\* p.particleCount particles.
Cex_C4 ==
    op.name = "updateParameters" => Len(particles) = params.particleCount

\* C5: when updateParameters lowers the count by d, the particles removed are
\* the d non-stuck particles with the highest indices, stuck particles (the
\* last ones) only once no non-stuck particle is left, and the survivors keep
\* their order, position and stuck flag.
RemovedByRule(P, d) ==
    LET free == {i \in Indices(P) : ~P[i].isStuck}
        stuck == Indices(P) \ free
    IN {i \in free : Cardinality({j \in free : j > i}) < d}
       \cup {i \in stuck : Cardinality({j \in stuck : j > i}) < d - Cardinality(free)}

Thm_C5 ==
    (op.name = "updateParameters" /\ params.particleCount < pre.params.particleCount) =>
        LET P == pre.particles
            d == pre.params.particleCount - params.particleCount
            kept == Indices(P) \ RemovedByRule(P, d)
            nth(n) == CHOOSE i \in kept : Cardinality({j \in kept : j < i}) = n - 1
            free == {i \in Indices(P) : ~P[i].isStuck}
        IN /\ Len(particles) = Cardinality(kept)
           /\ \A n \in Indices(particles) :
                 /\ SamePlace(particles[n], P[nth(n)])
                 /\ particles[n].isStuck = P[nth(n)].isStuck
           /\ (d = 1 /\ free # {}) =>
                 /\ Cardinality({n \in Indices(particles) : ~particles[n].isStuck})
                       = Cardinality(free) - 1
                 /\ Cardinality({n \in Indices(particles) : particles[n].isStuck})
                       = Len(P) - Cardinality(free)

\* the count was lowered by one while the last particle of the list was
\* stuck and a non-stuck one stood before it: the non-stuck one went
Witness_C5 ==
    /\ op.name = "updateParameters"
    /\ pre.params.particleCount - params.particleCount = 1
    /\ Len(pre.particles) >= 2
    /\ pre.particles[Len(pre.particles)].isStuck
    /\ \E i \in Indices(pre.particles) : ~pre.particles[i].isStuck
    /\ Len(particles) = Len(pre.particles) - 1
    /\ particles[Len(particles)].isStuck

\* C6: updateParameters with a larger particleCount keeps the position,
\* heading and stuck flag of every existing particle, in the same order
\* (stuck particles keep all their fields), and appends only non-stuck
\* particles at the tail.
Thm_C6 ==
    (op.name = "updateParameters" /\ params.particleCount > pre.params.particleCount) =>
        LET P == pre.particles
        IN /\ Len(particles) = Len(P) + params.particleCount - pre.params.particleCount
           /\ \A i \in Indices(P) :
                 /\ SamePlace(particles[i], P[i])
                 /\ particles[i].angle = P[i].angle
                 /\ particles[i].isStuck = P[i].isStuck
                 /\ P[i].isStuck => particles[i] = P[i]
           /\ \A i \in Indices(particles) \ Indices(P) : ~particles[i].isStuck

\* the count was raised, at a changed moveSpeed, over a list that held a
\* stuck and a non-stuck particle
Witness_C6 ==
    /\ op.name = "updateParameters"
    /\ params.particleCount > pre.params.particleCount
    /\ \E i, j \in Indices(pre.particles) :
          pre.particles[i].isStuck /\ ~pre.particles[j].isStuck
    /\ Len(particles) > Len(pre.particles)

\* C7: updateParameters with a record that differs from the current one only
\* in cosmetic fields changes no particle, nor the field, nor the food sources.
Cex_C7 ==
    (op.name = "updateParameters" /\ CosmeticOnly(pre.params, params)) =>
        /\ particles = pre.particles
        /\ chemicalField = pre.chemicalField
        /\ foodSources = pre.foodSources

\* C8: with the pause flag set, a tick changes neither the particles nor the
\* field nor the food sources.
Thm_C8 ==
    (op.name = "tick" /\ pre.params.isPaused) =>
        /\ particles = pre.particles
        /\ chemicalField = pre.chemicalField
        /\ foodSources = pre.foodSources

\* a paused tick over a state in which a non-stuck particle had a velocity
Witness_C8 ==
    /\ op.name = "tick"
    /\ pre.params.isPaused
    /\ \E i \in Indices(particles) :
          ~particles[i].isStuck /\ (particles[i].vx # 0 \/ particles[i].vy # 0)

\* the deposit radius, the particle's cell, and what one deposit added
DepositRadius == Max(1, params.particleSize \div PS)

DiskCount(r) ==
    Cardinality({d \in (-r .. r) \X (-r .. r) : d[1] * d[1] + d[2] * d[2] <= r * r})

AwayFromEdge(r) ==
    LET cx == particles[1].x \div PS
        cy == particles[1].y \div PS
    IN cx - r >= 0 /\ cx + r < width /\ cy - r >= 0 /\ cy + r < height

NoClamping ==
    \A idx \in DOMAIN chemicalField :
        pre.chemicalField[idx] + params.chemicalDepositRate <= FS

MassAdded ==
    SumTo(width * height,
          LAMBDA k : chemicalField[k - 1] - pre.chemicalField[k - 1])

\* C9 as stated: the mass one deposit adds equals chemicalDepositRate, for
\* every particleSize (no clamping, particle away from the edge).
Cex_C9 ==
    (op.name = "deposit" /\ AwayFromEdge(DepositRadius) /\ NoClamping) =>
        MassAdded = params.chemicalDepositRate

\* C9 as amended: the mass one deposit adds equals chemicalDepositRate times
\* N / radius^2, N the number of integer offsets inside the disk of the
\* deposit radius (5 for radius 1, 13 for radius 2).
Thm_C9 ==
    (op.name = "deposit" /\ AwayFromEdge(DepositRadius) /\ NoClamping) =>
        MassAdded * DepositRadius * DepositRadius
            = DiskCount(DepositRadius) * params.chemicalDepositRate

\* a deposit of radius 2 away from the edge, unclamped
Witness_C9 ==
    /\ op.name = "deposit"
    /\ DepositRadius = 2
    /\ AwayFromEdge(2)
    /\ NoClamping
    /\ MassAdded > params.chemicalDepositRate

\* C10: with particleSize = 1, one deposit of a particle in an interior cell
\* (cx, cy) of a zero field leaves chemicalDepositRate in the five cells of
\* the plus shape around (cx, cy) and 0 in every other cell.
Thm_C10 ==
    (/\ op.name = "deposit"
     /\ params.particleSize = PS
     /\ AwayFromEdge(1)
     /\ pre.chemicalField = ZeroField(width, height)) =>
        LET cx == particles[1].x \div PS
            cy == particles[1].y \div PS
            plus == {cy * width + cx, cy * width + cx - 1, cy * width + cx + 1,
                     (cy - 1) * width + cx, (cy + 1) * width + cx}
        IN \A idx \in DOMAIN chemicalField :
              chemicalField[idx]
                  = IF idx \in plus THEN params.chemicalDepositRate ELSE 0

\* the scenario: 4 x 4 field, particle at (2, 2), particleSize 1, rate 0.1
Witness_C10 ==
    /\ op.name = "deposit"
    /\ width = 4 /\ height = 4
    /\ particles[1].x = 2 * PS /\ particles[1].y = 2 * PS
    /\ params.particleSize = PS
    /\ params.chemicalDepositRate = 100
    /\ pre.chemicalField = ZeroField(4, 4)
    /\ chemicalField[2 * 4 + 2] = 100

\* the cells of the disk of radius r around cell idx, wrapped, idx included
Neighbourhood(idx, r) ==
    {(((idx \div width) + d[2]) % height) * width + (((idx % width) + d[1]) % width) :
        d \in {e \in (-r .. r) \X (-r .. r) : e[1] * e[1] + e[2] * e[2] <= r * r}}

\* a frame that ran the diffusion step with no particle and no food source
QuietTick ==
    /\ op.name = "tick"
    /\ ~pre.params.isPaused
    /\ pre.particles = <<>>
    /\ pre.foodSources = <<>>
    /\ \A idx \in DOMAIN pre.chemicalField : pre.chemicalField[idx] >= 0

\* C11 as stated: with no particle and no food source a diffusion step
\* leaves every cell at or below the value it held before the step.
Cex_C11 ==
    QuietTick =>
        \A idx \in DOMAIN chemicalField : chemicalField[idx] <= pre.chemicalField[idx]

\* C11 as amended: with no particle and no food source a diffusion step
\* leaves every cell at or below the largest value that the cells of its
\* neighbourhood disk, itself included, held before the step.
Thm_C11 ==
    QuietTick =>
        \A idx \in DOMAIN chemicalField :
            \E n \in Neighbourhood(idx, Max(1, pre.params.particleSize \div PS)) :
                chemicalField[idx] <= pre.chemicalField[n]

\* a quiet diffusion step in which a cell rose above its previous value
Witness_C11 ==
    /\ QuietTick
    /\ \E idx \in DOMAIN chemicalField :
          /\ chemicalField[idx] > pre.chemicalField[idx]
          /\ pre.chemicalField[idx] > 0

\* the scenario of C12: a frame over a zero field, no particle, one food
\* source at (1, 1) of radius 1, particleSize 1, on the 4 x 4 field
FoodScenario ==
    /\ op.name = "tick"
    /\ ~pre.params.isPaused
    /\ width = 4 /\ height = 4
    /\ pre.particles = <<>>
    /\ pre.chemicalField = ZeroField(4, 4)
    /\ pre.params.particleSize = PS
    /\ Len(pre.foodSources) = 1
    /\ pre.foodSources[1].x = PS /\ pre.foodSources[1].y = PS
    /\ pre.foodSources[1].radius = PS

\* the cells the source of the scenario covers: (1, 1) and the four next to it
ScenarioCentre == 1 * 4 + 1

ScenarioCovered == {ScenarioCentre, 1 * 4 + 0, 1 * 4 + 2, 0 * 4 + 1, 2 * 4 + 1}

\* C12 as stated: after the step the centre cell and every covered cell hold
\* exactly strength x (1 - decayRate), for every diffusionRate.
Cex_C12 ==
    FoodScenario =>
        \A idx \in ScenarioCovered :
            chemicalField[idx]
                = RDiv(pre.foodSources[1].strength * (FS - pre.params.decayRate), FS)

\* C12 as amended: after the step the centre cell holds exactly
\* strength x (1 - decayRate) for every diffusionRate, and each of the four
\* other covered cells, two of whose five neighbourhood cells are covered,
\* holds strength x (1 - 0.6 x diffusionRate) x (1 - decayRate).
Thm_C12 ==
    FoodScenario =>
        LET strength == pre.foodSources[1].strength
            dr == pre.params.diffusionRate
            dc == pre.params.decayRate
        IN /\ chemicalField[ScenarioCentre] = RDiv(strength * (FS - dc), FS)
           /\ \A idx \in ScenarioCovered \ {ScenarioCentre} :
                 chemicalField[idx]
                     = RDiv(RDiv(strength * (5 * FS - 3 * dr), 5 * FS) * (FS - dc), FS)

\* the scenario with strength 0.7 at a positive diffusionRate and decayRate
Witness_C12 ==
    /\ FoodScenario
    /\ pre.foodSources[1].strength = 700
    /\ pre.params.diffusionRate > 0
    /\ pre.params.decayRate > 0
    /\ chemicalField[ScenarioCentre] = 630
    /\ chemicalField[1 * 4 + 0] < 630

\* food source food covers cell idx: some offset of its window passes the
\* distance test and lands in the cell
Covers(food, idx, prm) ==
    LET r == Max(1, (food.radius * prm.particleSize) \div (PS * PS))
    IN \E dx \in -r .. r, dy \in -r .. r :
          /\ (dx * dx + dy * dy) * PS * PS * PS * PS
                 <= food.radius * food.radius * prm.particleSize * prm.particleSize
          /\ (food.x + dx * PS) \div PS = idx % width
          /\ (food.y + dy * PS) \div PS = idx \div width

\* the field the injection stage must produce from field f: a covered cell
\* holds the strength of the last source of the list that covers it, any
\* other cell what it held
ExpectedInjection(f, foods, prm) ==
    [idx \in DOMAIN f |->
        LET covering == {k \in 1 .. Len(foods) : Covers(foods[k], idx, prm)}
        IN IF covering = {} THEN f[idx]
           ELSE foods[CHOOSE k \in covering : \A m \in covering : m <= k].strength]

\* C13: the injection stage of a diffusion step overwrites every in-bounds
\* cell a food source covers with that source's strength, whatever the cell
\* held, and a cell several sources cover takes the strength of the source
\* added last: the field after the step is the blur and decay of that field.
Thm_C13 ==
    (op.name = "tick" /\ ~pre.params.isPaused /\ pre.particles = <<>>) =>
        chemicalField
            = diffuseChemicals(
                  ExpectedInjection(pre.chemicalField, pre.foodSources, pre.params),
                  width, height, <<>>, pre.params)

\* a step over a non-zero field with two sources of different strength that
\* cover a common cell
Witness_C13 ==
    /\ op.name = "tick"
    /\ ~pre.params.isPaused
    /\ pre.particles = <<>>
    /\ Len(pre.foodSources) = 2
    /\ pre.foodSources[1].strength # pre.foodSources[2].strength
    /\ \E idx \in DOMAIN pre.chemicalField :
          /\ Covers(pre.foodSources[1], idx, pre.params)
          /\ Covers(pre.foodSources[2], idx, pre.params)
          /\ pre.chemicalField[idx] > 0
    /\ chemicalField # pre.chemicalField

\* C14: removeFoodSourcesNear(x, y, radius) removes exactly the sources whose
\* centre is at distance strictly less than radius from (x, y); every other
\* source, one at distance exactly radius included, is kept, in its order.
Cex_C14 ==
    op.name = "removeFoodSourcesNear" =>
        foodSources
            = SelectSeq(pre.foodSources,
                        LAMBDA food :
                            (food.x - op.x) * (food.x - op.x)
                                + (food.y - op.y) * (food.y - op.y)
                              >= op.radius * op.radius)

\* C15: clearFoodSources() leaves the food-source list empty and every cell
\* 0 and changes no particle and no parameter; a tick with no particle over
\* the cleared engine keeps the field all-zero.
Thm_C15 ==
    /\ op.name = "clearFoodSources" =>
          /\ foodSources = <<>>
          /\ chemicalField = ZeroField(width, height)
          /\ particles = pre.particles
          /\ params = pre.params
    /\ (/\ op.name = "tick"
        /\ pre.particles = <<>>
        /\ pre.foodSources = <<>>
        /\ pre.chemicalField = ZeroField(width, height)) =>
          chemicalField = ZeroField(width, height)

\* a clear over particles, a food source and a non-zero field
Witness_C15 ==
    /\ op.name = "clearFoodSources"
    /\ pre.foodSources # <<>>
    /\ pre.chemicalField # ZeroField(width, height)
    /\ particles # <<>>
    /\ chemicalField = ZeroField(width, height)

InField(p) == 0 <= p.x /\ p.x < width * PS /\ 0 <= p.y /\ p.y < height * PS

\* C16: with moveSpeed within the field dimensions, every particle that a
\* tick moved (non-stuck at its start) lies in [0, width) x [0, height) after
\* it, and so does, in every state, every particle made by the constructor,
\* restart or a count increase (those of speed # 0: only a pinned particle,
\* placed where the pin tool clicked, has speed 0).
Thm_C16 ==
    (params.moveSpeed <= Min(width, height) * PS
        /\ pre.params.moveSpeed <= Min(width, height) * PS) =>
        /\ \A i \in Indices(particles) :
              particles[i].speed # 0 => InField(particles[i])
        /\ op.name = "tick" =>
              \A i \in Indices(pre.particles) :
                  ~pre.particles[i].isStuck => InField(particles[i])

\* a tick in which a particle stepped over an edge of the field and came
\* back in on the other side
Witness_C16 ==
    /\ op.name = "tick"
    /\ \E i \in Indices(pre.particles) :
          /\ ~pre.particles[i].isStuck
          /\ \/ pre.particles[i].x + particles[i].vx >= width * PS
             \/ pre.particles[i].x + particles[i].vx < 0
          /\ particles[i].x
                = (pre.particles[i].x + particles[i].vx + width * PS) % (width * PS)
          /\ InField(particles[i])

\* C17: restart() discards every particle, stuck and pinned ones included,
\* and leaves exactly params.particleCount fresh particles, none stuck; the
\* field, the food sources and the parameters are unchanged.
Thm_C17 ==
    op.name = "restart" =>
        /\ Len(particles) = params.particleCount
        /\ \A i \in Indices(particles) :
              /\ ~particles[i].isStuck
              /\ \E d \in SpawnDraws :
                    particles[i] = SpawnParticle(d, width, height, params)
        /\ chemicalField = pre.chemicalField
        /\ foodSources = pre.foodSources
        /\ params = pre.params

\* a restart over a list that held a stuck particle beyond particleCount
\* and over a non-zero field
Witness_C17 ==
    /\ op.name = "restart"
    /\ \E i \in Indices(pre.particles) : pre.particles[i].isStuck
    /\ Len(pre.particles) > pre.params.particleCount
    /\ pre.chemicalField # ZeroField(width, height)
    /\ Len(particles) = params.particleCount

\* query(x, y) of the field at a point given in tenths: 0 outside
\* [0, width) x [0, height), else the cell at the floored coordinates
Query(pt) ==
    IF 0 <= pt[1] /\ pt[1] < width * PS /\ 0 <= pt[2] /\ pt[2] < height * PS
    THEN chemicalField[(pt[2] \div PS) * width + (pt[1] \div PS)]
    ELSE 0

\* the indices the sensors of particle p, its deposit at (p.x, p.y) and the
\* injection of food source food compute after their range tests on the
\* coordinates (lines 303-304, 280-283, 335-338)
SenseIndices(p) ==
    {(pt[2] \div PS) * width + (pt[1] \div PS) :
        pt \in {q \in {SensorPoint(p, i, params) : i \in {-1, 0, 1}} :
                   0 <= q[1] /\ q[1] < width * PS /\ 0 <= q[2] /\ q[2] < height * PS}}

WindowIndices(x, y, r) ==
    {c[2] * width + c[1] :
        c \in {e \in {<<(x + dx * PS) \div PS, (y + dy * PS) \div PS>> :
                          dx \in -r .. r, dy \in -r .. r} :
                   0 <= e[1] /\ e[1] < width /\ 0 <= e[2] /\ e[2] < height}}

\* C18: in every reachable state each sensor of each free particle reads 0
\* when its point is outside the field and the cell at the floored point
\* when inside (no wrap), the buffer has width * height cells, and every
\* index that sensing, a deposit or a food injection computes lies in it.
Thm_C18 ==
    /\ DOMAIN chemicalField = 0 .. (width * height - 1)
    /\ \A i \in Indices(particles) :
          ~particles[i].isStuck =>
             /\ sense(particles[i], chemicalField, params, width, height)
                   = <<Query(SensorPoint(particles[i], -1, params)),
                       Query(SensorPoint(particles[i], 0, params)),
                       Query(SensorPoint(particles[i], 1, params))>>
             /\ SenseIndices(particles[i]) \subseteq DOMAIN chemicalField
             /\ WindowIndices(particles[i].x, particles[i].y,
                              Max(1, params.particleSize \div PS))
                   \subseteq DOMAIN chemicalField
    /\ \A k \in 1 .. Len(foodSources) :
          WindowIndices(foodSources[k].x, foodSources[k].y,
                        Max(1, (foodSources[k].radius * params.particleSize)
                                  \div (PS * PS)))
              \subseteq DOMAIN chemicalField

\* after a tick, a free particle with one sensor outside the field, where
\* the cell a wrapped sensor would reach is not zero, and one sensor inside
\* reading a non-zero cell; its deposit window is cut by the field edge
Witness_C18 ==
    /\ op.name = "tick"
    /\ \E i \in Indices(particles) :
          /\ ~particles[i].isStuck
          /\ \E k \in {-1, 0, 1} :
                LET pt == SensorPoint(particles[i], k, params)
                IN /\ ~(0 <= pt[1] /\ pt[1] < width * PS
                          /\ 0 <= pt[2] /\ pt[2] < height * PS)
                   /\ SensorReading(particles[i], k, chemicalField, params,
                                    width, height) = 0
                   /\ chemicalField[((pt[2] % (height * PS)) \div PS) * width
                                       + ((pt[1] % (width * PS)) \div PS)] > 0
          /\ \E k \in {-1, 0, 1} :
                SensorReading(particles[i], k, chemicalField, params,
                              width, height) > 0
          /\ Cardinality(WindowIndices(particles[i].x, particles[i].y, 1)) < 9

\* particle i is the first particle a tick steers: it is free and every
\* particle before it in the list is stuck, so it sees the list as it was
\* at the start of the tick
FirstFree(ps, i) == ~ps[i].isStuck /\ \A j \in 1 .. (i - 1) : ps[j].isStuck

\* a stuck particle lies at distance less than 3 x particleSize from ps[i]
StuckWithinReach(ps, i, prm) ==
    \E j \in Indices(ps) \ {i} :
        /\ ps[j].isStuck
        /\ Distance(ps[j].x - ps[i].x, ps[j].y - ps[i].y) < prm.particleSize * 3 * 100

\* C19: whenever a stuck particle lies at distance less than 3 x particleSize
\* from a free particle being updated, that particle is a sticking candidate,
\* for every perceptionRadius and wherever the two lie relative to the cells
\* of the index; with stickingProbability = 1 a candidate always sticks.
Cex_C19 ==
    (op.name = "tick" /\ ~pre.params.isPaused /\ pre.params.stickingProbability = FS) =>
        \A i \in Indices(pre.particles) :
            (FirstFree(pre.particles, i) /\ StuckWithinReach(pre.particles, i, pre.params))
                => particles[i].isStuck

\* C20: a free particle that is a sticking candidate and whose roll is below
\* stickingProbability ends the tick stuck, with vx = vy = 0, at the position
\* it had at the start of the tick: no steered velocity is applied to it;
\* with stickingProbability = 1 every sticking candidate ends so.
Thm_C20 ==
    (op.name = "tick" /\ ~pre.params.isPaused) =>
        /\ \A i \in Indices(pre.particles) :
              (~pre.particles[i].isStuck /\ particles[i].isStuck) =>
                 /\ particles[i].vx = 0
                 /\ particles[i].vy = 0
                 /\ SamePlace(particles[i], pre.particles[i])
        /\ pre.params.stickingProbability = FS =>
              \A i \in Indices(pre.particles) :
                  (/\ FirstFree(pre.particles, i)
                   /\ hasNearbyStuck(i, pre.particles, updateGrid(pre.particles),
                                     pre.params)) =>
                      /\ particles[i].isStuck
                      /\ particles[i].vx = 0
                      /\ particles[i].vy = 0
                      /\ SamePlace(particles[i], pre.particles[i])

\* a tick at stickingProbability = 1 in which a moving particle, a sticking
\* candidate across the boundary of two index cells, stuck where it stood
\* while another particle moved on
Witness_C20 ==
    /\ op.name = "tick"
    /\ pre.params.stickingProbability = FS
    /\ \E i \in Indices(pre.particles) :
          /\ FirstFree(pre.particles, i)
          /\ hasNearbyStuck(i, pre.particles, updateGrid(pre.particles), pre.params)
          /\ CellKey(pre.particles[i]) # CellKey(pre.particles[Len(pre.particles)])
          /\ pre.particles[i].vx # 0
          /\ particles[i].isStuck
          /\ SamePlace(particles[i], pre.particles[i])
    /\ \E j \in Indices(pre.particles) : ~SamePlace(particles[j], pre.particles[j])

\* the sum of field f over the set of cells S
RECURSIVE SumOver(_, _)
SumOver(f, S) ==
    IF S = {} THEN 0
    ELSE LET n == CHOOSE m \in S : TRUE
         IN f[n] + SumOver(f, S \ {n})

\* a frame of an engine without particles: the step is the diffusion step
\* applied to the field of the previous state
DiffusionStep ==
    /\ op.name = "tick"
    /\ ~pre.params.isPaused
    /\ pre.particles = <<>>
    /\ pre.params.particleSize = PS

\* the field of the previous state after the food injection of the step
Injected == ExpectedInjection(pre.chemicalField, pre.foodSources, pre.params)

\* (1 - decayRate) x (diffusionRate x mean of the neighbourhood of cell idx
\* in field f + (1 - diffusionRate) x own), the neighbourhood of radius 1
\* being the cell and the four next to it, wrapped
BlendOf(own, f, idx) ==
    LET cells == Neighbourhood(idx, 1)
        count == Cardinality(cells)
    IN RDiv(RDiv(SumOver(f, cells) * pre.params.diffusionRate
                    + own * (FS - pre.params.diffusionRate) * count, count * FS)
               * (FS - pre.params.decayRate), FS)

\* C21 as stated: each cell's new value blends the mean of its neighbourhood
\* with the value the cell held before this step's food injection.
Cex_C21 ==
    DiffusionStep =>
        \A idx \in DOMAIN chemicalField :
            chemicalField[idx] = BlendOf(pre.chemicalField[idx], Injected, idx)

\* C21 as amended: each cell's new value blends the mean of its neighbourhood
\* with the value the cell holds after this step's food injection, and every
\* cell reads the injected buffer, never a value blurred in the same pass.
Thm_C21 ==
    DiffusionStep =>
        \A idx \in DOMAIN chemicalField :
            chemicalField[idx] = BlendOf(Injected[idx], Injected, idx)

\* a diffusion step over a non-zero field in which a food source overwrote
\* a cell that held another value
Witness_C21 ==
    /\ DiffusionStep
    /\ pre.params.diffusionRate > 0
    /\ pre.params.diffusionRate < FS
    /\ \E idx \in DOMAIN chemicalField :
          /\ pre.chemicalField[idx] > 0
          /\ Injected[idx] # pre.chemicalField[idx]
          /\ chemicalField[idx] # BlendOf(pre.chemicalField[idx], Injected, idx)

\* the eight cells around cell idx, wrapped, and idx itself
Moore(idx) ==
    {(((idx \div width) + dy) % height) * width + (((idx % width) + dx) % width) :
        dx \in -1 .. 1, dy \in -1 .. 1}

\* a diffusion step that spreads: diffusionRate at least 0.1, decayRate at
\* most 0.1, no negative value
SpreadingStep ==
    /\ DiffusionStep
    /\ pre.params.diffusionRate >= 100
    /\ pre.params.decayRate <= 100
    /\ \A idx \in DOMAIN Injected : Injected[idx] >= 0

\* C22 as stated: with particleSize 1 a value of a cell reaches, in one
\* step, the eight cells around it, diagonals included, across the field
\* edges too.
Cex_C22 ==
    SpreadingStep =>
        \A idx \in DOMAIN chemicalField :
            (\E n \in Moore(idx) : Injected[n] >= 300) => chemicalField[idx] > 0

\* C22 as amended: with particleSize 1 the neighbourhood averaged for a cell
\* is the cell and the four cells that share a side with it, wrapped on
\* both axes: a value reaches those four in one step, across the field
\* edges too, and a cell whose five neighbourhood cells hold 0 stays 0
\* whatever its diagonal neighbours hold.
Thm_C22 ==
    SpreadingStep =>
        \A idx \in DOMAIN chemicalField :
            /\ (\E n \in Neighbourhood(idx, 1) : Injected[n] >= 300)
                  => chemicalField[idx] > 0
            /\ (\A n \in Neighbourhood(idx, 1) : Injected[n] = 0)
                  => chemicalField[idx] = 0

\* a step that left at 0 a cell with a diagonal neighbour at 0.3 or more,
\* and raised from 0 a cell of column 0 whose only non-zero neighbour lay
\* in the last column
Witness_C22 ==
    /\ SpreadingStep
    /\ \E idx \in DOMAIN chemicalField :
          /\ \E n \in Moore(idx) : Injected[n] >= 300
          /\ chemicalField[idx] = 0
    /\ \E idx \in DOMAIN chemicalField :
          /\ idx % width = 0
          /\ Injected[idx] = 0
          /\ Injected[idx + 1] = 0
          /\ Injected[idx + width - 1] >= 300
          /\ chemicalField[idx] > 0

\* update() is about to call updateParticle on a free particle
Updating ==
    /\ InUpdate
    /\ NextIndex <= Len(particles)
    /\ ~particles[NextIndex].isStuck

\* the index update() built when it began
PhaseGrid == updateGrid(pre.particles)

\* the other particles at distance strictly below perceptionRadius from
\* particle k, by the positions of this moment
WithinPerception(k) ==
    {j \in Indices(particles) \ {k} :
        Distance(particles[j].x - particles[k].x, particles[j].y - particles[k].y)
            < params.perceptionRadius * 100}

\* the other particles whose cell, by their position when update() began,
\* is within ceil(perceptionRadius / gridSize) cells of the cell of k
FiledInWindow(k) ==
    LET radius == CeilDiv(params.perceptionRadius, gridSize * PS)
        Apart(a, b) == IF a >= b THEN a - b ELSE b - a
    IN {j \in Indices(particles) \ {k} :
           /\ Apart(CellKey(pre.particles[j])[1], CellKey(particles[k])[1]) <= radius
           /\ Apart(CellKey(pre.particles[j])[2], CellKey(particles[k])[2]) <= radius}

\* no particle has left the cell the index files it under
IndexFresh == \A j \in Indices(particles) : CellKey(particles[j]) = CellKey(pre.particles[j])

\* C23 as stated: for every particle updated in a tick the flocking
\* neighbours are exactly the other particles at distance strictly below
\* perceptionRadius at that moment; the window never misses one.
Cex_C23 ==
    Updating => Flock(NextIndex, particles, PhaseGrid, params) = WithinPerception(NextIndex)

\* C23 as amended: the flocking neighbours are exactly the other particles
\* that the index, built from the positions at the start of the tick, files
\* in the window of ceil(perceptionRadius / gridSize) cells and whose
\* distance at that moment is strictly below perceptionRadius; the particle
\* never counts itself, and while no particle has left its cell since the
\* index was built the window misses no particle within perceptionRadius.
Thm_C23 ==
    Updating =>
        LET flock == Flock(NextIndex, particles, PhaseGrid, params)
        IN /\ flock = FiledInWindow(NextIndex) \cap WithinPerception(NextIndex)
           /\ NextIndex \notin flock
           /\ IndexFresh => flock = WithinPerception(NextIndex)

\* a particle about to be updated with a flocking neighbour, while another
\* particle, moved earlier in the tick to within perceptionRadius, is still
\* filed in a cell outside the window
Witness_C23 ==
    /\ Updating
    /\ Flock(NextIndex, particles, PhaseGrid, params) # {}
    /\ \E j \in WithinPerception(NextIndex) :
          /\ j \notin Flock(NextIndex, particles, PhaseGrid, params)
          /\ CellKey(particles[j]) # CellKey(pre.particles[j])

\* the cells of the field inside the deposit disk around (x, y)
DepositDisk(x, y) ==
    LET r == Max(1, params.particleSize \div PS)
    IN {c[2] * width + c[1] :
           c \in {e \in {<<(x + d[1] * PS) \div PS, (y + d[2] * PS) \div PS>> :
                             d \in {dd \in (-r .. r) \X (-r .. r) :
                                       dd[1] * dd[1] + dd[2] * dd[2] <= r * r}} :
                      0 <= e[1] /\ e[1] < width /\ 0 <= e[2] /\ e[2] < height}}

\* the states after updateParticle on particle a and then on particle b,
\* from the state in which update() has just built the index
InOrder(a, b) ==
    UNION {updateParticle(b, s.ps, s.f, PhaseGrid, params, width, height) :
              s \in updateParticle(a, particles, chemicalField, PhaseGrid, params,
                                   width, height)}

\* C24 as stated: each particle's update reads the index, the field and the
\* other particles as they were when the phase began and writes its own
\* state only, so updating the first two particles in either order gives
\* the same states.
Cex_C24 ==
    (op.name = "updateGrid" /\ Len(particles) >= 2) => InOrder(1, 2) = InOrder(2, 1)

\* C24 as amended: the particles are updated one after the other in list
\* order; each update reads the index built when the phase began and the
\* field and the other particles as they are at that moment, and writes
\* that particle's own state and the field cells of its deposit disk only.
Thm_C24 ==
    /\ InUpdate => NextIndex \in 1 .. (Len(particles) + 1)
    /\ op.name = "updateParticle" =>
          LET k == op.index
              b == op.before
          IN /\ Len(particles) = Len(b.particles)
             /\ \A j \in Indices(particles) \ {k} : particles[j] = b.particles[j]
             /\ \A idx \in DOMAIN chemicalField \ DepositDisk(particles[k].x, particles[k].y) :
                   chemicalField[idx] = b.chemicalField[idx]
             /\ [ps |-> particles, f |-> chemicalField]
                   \in updateParticle(k, b.particles, b.chemicalField, PhaseGrid, params,
                                      width, height)

\* the update of a later particle whose result no update from the state at
\* the start of the phase gives, the field having been written by it
Witness_C24 ==
    /\ op.name = "updateParticle"
    /\ op.index >= 2
    /\ chemicalField # op.before.chemicalField
    /\ \A s \in updateParticle(op.index, pre.particles, pre.chemicalField, PhaseGrid,
                                params, width, height) :
          s.ps[op.index] # particles[op.index]

\* updateParticle has just steered a particle by its sensors alone: it was
\* free, did not stick and had no flocking neighbour
Steered ==
    /\ op.name = "updateParticle"
    /\ ~op.before.particles[op.index].isStuck
    /\ ~particles[op.index].isStuck
    /\ Flock(op.index, op.before.particles, PhaseGrid, params) = {}

\* the readings <<left, centre, right>> the steered particle took
Readings == sense(op.before.particles[op.index], op.before.chemicalField, params,
                  width, height)

MaxReading == Max(Readings[1], Max(Readings[2], Readings[3]))

CentreGreatest == Readings[2] > Readings[1] /\ Readings[2] > Readings[3]

\* the heading after the update is the angle before it plus by
Turned(by) ==
    (particles[op.index].angle - (op.before.particles[op.index].angle + by)) % FullTurn = 0

\* a turn of at most turnSpeed / 2 either way
RandomWalkTurn ==
    \E by \in -(params.turnSpeed \div 2) .. (params.turnSpeed \div 2) : Turned(by)

\* the heading after the update is the direction of the velocity before it
KeptDirection ==
    particles[op.index].angle
        = Atan2(op.before.particles[op.index].vy, op.before.particles[op.index].vx)

\* C25 as stated: maximum reading equal to 0 gives a random-walk turn of at
\* most turnSpeed / 2; otherwise centre strictly greatest keeps the
\* direction; otherwise the heading turns by exactly turnSpeed toward the
\* side with the greater reading, never toward the smaller one.
Cex_C25 ==
    Steered =>
        /\ MaxReading = 0 => RandomWalkTurn
        /\ (MaxReading # 0 /\ CentreGreatest) => KeptDirection
        /\ (MaxReading # 0 /\ ~CentreGreatest) =>
              /\ Readings[1] > Readings[3] => Turned(-params.turnSpeed)
              /\ Readings[3] > Readings[1] => Turned(params.turnSpeed)
              /\ Readings[1] = Readings[3] =>
                    (Turned(-params.turnSpeed) \/ Turned(params.turnSpeed))

\* C25 as amended: no reading above 0 gives a random-walk turn of at most
\* turnSpeed / 2; otherwise centre strictly greatest keeps the direction;
\* otherwise the heading turns by exactly turnSpeed, to the left when the
\* left reading is strictly greater than the right one and to the right
\* when it is not (the right reading is greater or the two are equal).
Thm_C25 ==
    Steered =>
        /\ MaxReading <= 0 => RandomWalkTurn
        /\ (MaxReading > 0 /\ CentreGreatest) => KeptDirection
        /\ (MaxReading > 0 /\ ~CentreGreatest) =>
              IF Readings[1] > Readings[3]
              THEN Turned(-params.turnSpeed)
              ELSE Turned(params.turnSpeed)

\* a particle whose three readings were below 0 and not all equal, steered
\* by a random-walk turn
Witness_C25 ==
    /\ Steered
    /\ MaxReading < 0
    /\ (CentreGreatest \/ Readings[1] # Readings[3])
    /\ RandomWalkTurn

\* C26: in every reachable state the length of the particle list minus
\* params.particleCount is the number of spawnPinned calls since construction
\* or the last restart: a tick keeps the length, spawnPinned adds one
\* particle, updateParameters changes the length by new count - old count.
Thm_C26 ==
    /\ Len(particles) - params.particleCount = nPins
    /\ op.name = "tick" => Len(particles) = Len(pre.particles)
    /\ op.name = "spawnPinned" => Len(particles) = Len(pre.particles) + 1
    /\ op.name = "updateParameters" =>
          Len(particles) - Len(pre.particles)
              = params.particleCount - pre.params.particleCount

\* updateParameters raised the count of an engine that holds a pinned
\* particle: the list is longer than particleCount
Witness_C26 ==
    /\ op.name = "updateParameters"
    /\ nPins = 1
    /\ params.particleCount > pre.params.particleCount
    /\ Len(particles) = params.particleCount + 1

\* updateParticle has just turned a free particle into a stuck one
BecameStuck ==
    /\ op.name = "updateParticle"
    /\ ~op.before.particles[op.index].isStuck
    /\ particles[op.index].isStuck

\* C27: a free particle becomes stuck only if, at that moment, another
\* particle that is already stuck lies within 3 x particleSize of it; as
\* long as spawnPinned was not called no particle is stuck, even with
\* stickingProbability = 1.
Thm_C27 ==
    /\ BecameStuck => StuckWithinReach(op.before.particles, op.index, params)
    /\ nPins = 0 => \A i \in Indices(particles) : ~particles[i].isStuck

\* with stickingProbability = 1, a particle stuck next to a particle that
\* was stuck when its update began, while a particle far from every stuck
\* one is still free
Witness_C27 ==
    /\ BecameStuck
    /\ params.stickingProbability = FS
    /\ nPins = 1
    /\ StuckWithinReach(op.before.particles, op.index, params)
    /\ \E j \in 1 .. (op.index - 1) : ~particles[j].isStuck

\* updateParticle has just run the deposit of a particle
Deposited ==
    /\ op.name = "updateParticle"
    /\ ~op.before.particles[op.index].isStuck
    /\ params.chemicalDepositRate >= 0

\* C28 as stated: a particle's deposit never lowers a cell: every cell
\* holds after the deposit at least what it held before, whatever the
\* strength of the food sources.
Cex_C28 ==
    Deposited =>
        \A idx \in DOMAIN chemicalField :
            chemicalField[idx] >= op.before.chemicalField[idx]

\* C28 as amended: a deposit never lowers a cell that holds at most 1.0; a
\* cell of the deposit disk that holds more than 1.0 is set to exactly 1.0,
\* and the cells outside the disk keep their value.
Thm_C28 ==
    Deposited =>
        \A idx \in DOMAIN chemicalField :
            LET before == op.before.chemicalField[idx]
                after == chemicalField[idx]
            IN /\ before <= FS => (after >= before /\ after <= FS)
               /\ before > FS =>
                     after = IF idx \in DepositDisk(particles[op.index].x,
                                                    particles[op.index].y)
                             THEN FS
                             ELSE before

\* a deposit over a field with cells above 1.0 around a food source of
\* strength 2: a cell of the disk was lowered to 1.0, a cell that held
\* less than 1.0 was raised, a cell above 1.0 outside the disk was kept
Witness_C28 ==
    /\ Deposited
    /\ \E idx \in DOMAIN chemicalField :
          /\ op.before.chemicalField[idx] > FS
          /\ chemicalField[idx] = FS
    /\ \E idx \in DOMAIN chemicalField :
          /\ op.before.chemicalField[idx] < FS
          /\ chemicalField[idx] > op.before.chemicalField[idx]
    /\ \E idx \in DOMAIN chemicalField :
          /\ op.before.chemicalField[idx] > FS
          /\ chemicalField[idx] = op.before.chemicalField[idx]

\* C29: the update of a particle that was stuck when the tick began, or
\* that stuck in an earlier tick, leaves the field as it is; the update in
\* which a particle becomes stuck still makes one deposit, around the
\* position the particle had and keeps.
Thm_C29 ==
    op.name = "updateParticle" =>
        LET k == op.index
            b == op.before
        IN /\ pre.particles[k].isStuck =>
                 /\ b.particles[k].isStuck
                 /\ chemicalField = b.chemicalField
                 /\ particles[k] = b.particles[k]
           /\ BecameStuck =>
                 /\ ~pre.particles[k].isStuck
                 /\ SamePlace(particles[k], b.particles[k])
                 /\ chemicalField = deposit(b.chemicalField, width, height,
                                            b.particles[k].x, b.particles[k].y, params)

\* in the second tick, the update of a particle that stuck in the first
\* tick, where it had raised the cell it stands in: the field is kept
Witness_C29 ==
    /\ op.name = "updateParticle"
    /\ nTicks = 1
    /\ pre.particles[op.index].isStuck
    /\ pre.particles[op.index].speed > 0
    /\ chemicalField = op.before.chemicalField
    /\ deposit(chemicalField, width, height, particles[op.index].x,
               particles[op.index].y, params) # chemicalField

====
